---- MODULE Spec2Model ----
(***************************************************************************)
(* NotebookExecutionService (notebookExecutionServiceImpl.ts): the         *)
(* orchestration of notebook cell execution against a kernel.  Each        *)
(* executeNotebookCells request is a process whose program counter names   *)
(* the await it is suspended at; everything between two awaits is one      *)
(* atomic step (single-threaded cooperative scheduling).                   *)
(***************************************************************************)
EXTENDS Integers, Sequences, FiniteSets, TLC

\* ---------------------------------------------------------------- bounds
\* longest cell collection handed to one request
MaxCells == 2
\* most source actions the kernel service offers
MaxSourceActions == 2

\* ------------------------------------------------------ the notebook
\* the executeNotebookCells requests in flight on the notebook
Requests == {1, 2}

\* cell handles of the notebook: 1 = A(code,py), 2 = B(markup,markdown), 3 = C(code,js)
Cells == {1, 2, 3}

CellKind(c) == IF c = 2 THEN "Markup" ELSE "Code"

Language(c) == CASE c = 1 -> "py" [] c = 2 -> "markdown" [] OTHER -> "js"

Kernels == {"K1", "K2"}

NoKernel == "none"

\* INotebookKernel.supportedLanguages
SupportedLanguages(k) == IF k = "K1" THEN {"py"} ELSE {"py", "js", "markdown"}

\* cell collections a caller may pass (Array.from(cells)): the collection is
\* unordered, so it is iterated in document order; repeats allowed
CellSeqs ==
    {cs \in UNION {[1..n -> Cells] : n \in 0..MaxCells} :
        \A i \in DOMAIN cs : i = Len(cs) \/ cs[i] <= cs[i + 1]}

VARIABLES
    pc,             \* per request: the await it is suspended at
    cellsArr,       \* per request: const cellsArr
    trust,          \* per request: const trust ("unset" before the await returns)
    kernel,         \* per request: let kernel
    exes,           \* per request: const exes (indices into records)
    selected,       \* kernel service: the selected-or-suggested kernel of the notebook
    matching,       \* kernel service: getMatchingKernel(notebook).all
    sourceActions,  \* kernel service: getSourceActions().length
    records,        \* execution state service: every record ever created
    log,            \* per request: its calls that bind, create, execute or complete, in order
    execCall,       \* per request: arguments of its executeNotebookCellsRequest call
    err,            \* per request: a rejection propagated to the caller
    cpc,            \* cancellation: where cancelNotebookCellHandles is
    capi,           \* cancellation: the method the caller invoked
    chandles,       \* cancellation: const cellsArr of cancelNotebookCellHandles
    ccall,          \* cancellation: arguments of its cancelNotebookCellExecution call
    couter          \* cancellation: the promise the caller holds

cancelVars == <<cpc, capi, chandles, ccall, couter>>

executeVars == <<pc, cellsArr, trust, kernel, exes, selected, matching, sourceActions,
                 records, log, execCall, err>>

vars == <<pc, cellsArr, trust, kernel, exes, selected, matching, sourceActions,
          records, log, execCall, err, cpc, capi, chandles, ccall, couter>>

NoCall == [kernel |-> NoKernel, handles |-> <<>>]

\* ------------------------------------------------ execution state service
Range(s) == {s[i] : i \in DOMAIN s}

Live(rec) == rec.state \in {"Unconfirmed", "Confirmed"}

LiveHandles(recs) == {recs[i].handle : i \in {j \in DOMAIN recs : Live(recs[j])}}

\* getCellExecution(cell.uri): index of the live record of the cell, 0 if none
GetCellExecution(recs, h) ==
    IF h \in LiveHandles(recs)
    THEN CHOOSE i \in DOMAIN recs : Live(recs[i]) /\ recs[i].handle = h
    ELSE 0

\* createCellExecution(kernelId, notebookUri, handle): the record of the
\* cell; identity is (notebook, handle), so a live record is returned as is
CreateCellExecution(recs, k, h, r) ==
    IF GetCellExecution(recs, h) # 0
    THEN [recs |-> recs, exe |-> GetCellExecution(recs, h)]
    ELSE [recs |-> Append(recs, [handle |-> h, kernel |-> k, state |-> "Unconfirmed",
                                 by |-> r, result |-> "none"]),
          exe |-> Len(recs) + 1]

\* exe.complete(result)
Complete(rec, res) == [rec EXCEPT !.state = "Completed", !.result = res]

\* ------------------------------------------------ executeNotebookCells
\* the loop body's test without the cell kind check
Eligible_AnyKind(recs, k, c) ==
    /\ GetCellExecution(recs, c) = 0
    /\ Language(c) \in SupportedLanguages(k)

\* the loop body's test without the look-up of a live execution
Eligible_NoLiveCheck(recs, k, c) ==
    /\ CellKind(c) = "Code"
    /\ Language(c) \in SupportedLanguages(k)

\* the loop body's test: does the cell go into executeCells
Eligible(recs, k, c) ==
    /\ ~(CellKind(c) # "Code" \/ GetCellExecution(recs, c) # 0)
    /\ Language(c) \in SupportedLanguages(k)

\* the filtering loop stopping one cell short
FilterCells_DropsLast(recs, k, cs) ==
    SelectSeq(SubSeq(cs, 1, Len(cs) - 1), LAMBDA c : Eligible(recs, k, c))

\* the filtering loop over cellsArr
FilterCells(recs, k, cs) == SelectSeq(cs, LAMBDA c : Eligible(recs, k, c))

\* executeCells.map(c => createCellExecution(kernel.id, notebook.uri, c.handle))
RECURSIVE CreateExecutions(_, _, _, _)
CreateExecutions(recs, k, hs, r) ==
    IF hs = <<>>
    THEN [recs |-> recs, exes |-> <<>>]
    ELSE LET one  == CreateCellExecution(recs, k, Head(hs), r)
             rest == CreateExecutions(one.recs, k, Tail(hs), r)
         IN  [recs |-> rest.recs, exes |-> <<one.exe>> \o rest.exes]

\* exes.filter(exe => exe.state === Unconfirmed)
Unconfirmed(recs, xs) == SelectSeq(xs, LAMBDA i : recs[i].state = "Unconfirmed")

\* reconciliation left out
CompleteUnconfirmed_None(recs, xs) == recs

\* reconciliation completing every record of the call, whatever its state
CompleteUnconfirmed_All(recs, xs) ==
    [i \in DOMAIN recs |-> IF i \in Range(xs) THEN Complete(recs[i], "empty") ELSE recs[i]]

\* reconciliation completing every Unconfirmed record of the registry
CompleteUnconfirmed_Everyones(recs, xs) ==
    [i \in DOMAIN recs |->
        IF recs[i].state = "Unconfirmed" THEN Complete(recs[i], "empty") ELSE recs[i]]

\* unconfirmed.forEach(exe => exe.complete({}))
CompleteUnconfirmed(recs, xs) ==
    [i \in DOMAIN recs |->
        IF i \in Range(Unconfirmed(recs, xs)) THEN Complete(recs[i], "empty") ELSE recs[i]]

\* the trust gate left out: the request goes on whatever the answer
Declined_Never(t) == FALSE

\* line 37: if (!trust) return
Declined(t) == ~t

\* the length test as "at least one": the first of several actions is run
ShouldRunSourceAction_AnyAction(all, actions) == Cardinality(all) = 0 /\ actions >= 1

\* lines 84 and 87: info.all.length === 0, then sourceActions.length === 1
ShouldRunSourceAction(all, actions) == Cardinality(all) = 0 /\ actions = 1

\* the picker opened whatever resolution found
NeedsPicker_Always(k) == TRUE

\* line 46: if (!kernel), the picker is needed
NeedsPicker(k) == k = NoKernel

\* the length test left out: bind, create and call whatever is left
ShouldDispatch_Always(executeCells) == TRUE

\* line 67: if (executeCells.length > 0)
ShouldDispatch(executeCells) == Len(executeCells) > 0

\* the kernel called before the kernel is bound and the records are created
DispatchLog_ExecuteFirst(n) ==
    <<"execute", "selectKernel">> \o [i \in 1..n |-> "createExecution"]

\* the events a filtering-and-dispatch step appends to the request's log
DispatchLog(n) ==
    <<"selectKernel">> \o [i \in 1..n |-> "createExecution"] \o <<"execute">>

TypeOK ==
    /\ pc \in [Requests -> {"idle", "trust", "sourceAction", "resolved", "picker",
                            "executing", "done", "failed"}]
    /\ cellsArr \in [Requests -> CellSeqs]
    /\ trust \in [Requests -> {"unset", "yes", "no"}]
    /\ kernel \in [Requests -> Kernels \cup {NoKernel}]
    /\ selected \in Kernels \cup {NoKernel}
    /\ matching \subseteq Kernels
    /\ sourceActions \in 0..MaxSourceActions
    /\ err \in [Requests -> BOOLEAN]
    /\ cpc \in {"idle", "cancelling", "done", "failed"}
    /\ capi \in {"none", "cells", "handles"}
    /\ chandles \in CellSeqs
    /\ couter \in {"none", "pending", "resolved", "rejected"}

Init ==
    /\ pc = [r \in Requests |-> "idle"]
    /\ cellsArr = [r \in Requests |-> <<>>]
    /\ trust = [r \in Requests |-> "unset"]
    /\ kernel = [r \in Requests |-> NoKernel]
    /\ exes = [r \in Requests |-> <<>>]
    /\ matching \in SUBSET Kernels
    /\ selected \in matching \cup {NoKernel}
    /\ sourceActions \in 0..MaxSourceActions
    /\ records = <<>>
    /\ log = [r \in Requests |-> <<>>]
    /\ execCall = [r \in Requests |-> NoCall]
    /\ err = [r \in Requests |-> FALSE]
    /\ cpc = "idle"
    /\ capi = "none"
    /\ chandles = <<>>
    /\ ccall = NoCall
    /\ couter = "none"

\* the filtering and dispatch without line 68: the kernel is not bound
FilterAndDispatch_NoBind(r, k) ==
    LET executeCells == FilterCells(records, k, cellsArr[r])
        made         == CreateExecutions(records, k, executeCells, r)
    IN  /\ kernel' = [kernel EXCEPT ![r] = k]
        /\ IF ShouldDispatch(executeCells)
           THEN /\ selected' = selected
                /\ records' = made.recs
                /\ exes' = [exes EXCEPT ![r] = made.exes]
                /\ execCall' = [execCall EXCEPT ![r] = [kernel |-> k, handles |-> executeCells]]
                /\ log' = [log EXCEPT ![r] = @ \o DispatchLog(Len(executeCells))]
                /\ pc' = [pc EXCEPT ![r] = "executing"]
           ELSE /\ pc' = [pc EXCEPT ![r] = "done"]
                /\ UNCHANGED <<selected, records, exes, log, execCall>>

\* lines 55-71: filter, and if anything is left bind the kernel, create the
\* records and call the kernel
FilterAndDispatch(r, k) ==
    LET executeCells == FilterCells(records, k, cellsArr[r])
        made         == CreateExecutions(records, k, executeCells, r)
    IN  /\ kernel' = [kernel EXCEPT ![r] = k]
        /\ IF ShouldDispatch(executeCells)
           THEN /\ selected' = k
                /\ records' = made.recs
                /\ exes' = [exes EXCEPT ![r] = made.exes]
                /\ execCall' = [execCall EXCEPT ![r] = [kernel |-> k, handles |-> executeCells]]
                /\ log' = [log EXCEPT ![r] = @ \o DispatchLog(Len(executeCells))]
                /\ pc' = [pc EXCEPT ![r] = "executing"]
           ELSE /\ pc' = [pc EXCEPT ![r] = "done"]
                /\ UNCHANGED <<selected, records, exes, log, execCall>>

\* line 32-36: the call, up to the await of requestWorkspaceTrust
ExecuteNotebookCells(r, cs) ==
    /\ pc[r] = "idle"
    /\ UNCHANGED cancelVars
    /\ cellsArr' = [cellsArr EXCEPT ![r] = cs]
    /\ log' = [log EXCEPT ![r] = <<"requestTrust">>]
    /\ pc' = [pc EXCEPT ![r] = "trust"]
    /\ UNCHANGED <<trust, kernel, exes, selected, matching, sourceActions, records,
                   execCall, err>>

\* lines 36-44 (and 81-88, 55-71): requestWorkspaceTrust returns t
TrustReturns(r, t) ==
    /\ pc[r] = "trust"
    /\ UNCHANGED cancelVars
    /\ trust' = [trust EXCEPT ![r] = IF t THEN "yes" ELSE "no"]
    /\ UNCHANGED <<cellsArr, matching, sourceActions, err>>
    /\ IF Declined(t)
       THEN /\ pc' = [pc EXCEPT ![r] = "done"]
            /\ UNCHANGED <<kernel, exes, selected, records, log, execCall>>
       ELSE IF selected # NoKernel
            THEN FilterAndDispatch(r, selected)
            ELSE /\ UNCHANGED <<exes, selected, records, execCall>>
                 /\ kernel' = [kernel EXCEPT ![r] = NoKernel]
                 /\ IF ShouldRunSourceAction(matching, sourceActions)
                    THEN pc' = [pc EXCEPT ![r] = "sourceAction"]
                    ELSE pc' = [pc EXCEPT ![r] = "resolved"]
                 /\ log' = log

\* a running source action makes a kernel available, and may select it
SourceActionAddsKernel(k, sel) ==
    /\ \E r \in Requests : pc[r] = "sourceAction"
    /\ UNCHANGED cancelVars
    /\ matching' = matching \cup {k}
    /\ selected' = IF sel THEN k ELSE selected
    /\ UNCHANGED <<pc, cellsArr, trust, kernel, exes, sourceActions, records, log,
                   execCall, err>>

\* runAction() returns and the kernel is not read again
SourceActionReturns_NoReread(r) ==
    /\ pc[r] = "sourceAction"
    /\ UNCHANGED cancelVars
    /\ pc' = [pc EXCEPT ![r] = "resolved"]
    /\ UNCHANGED <<cellsArr, trust, kernel, exes, selected, matching, sourceActions,
                   records, log, execCall, err>>

\* lines 88-93: runAction() returns; re-read the kernel and return it
SourceActionReturns(r) ==
    /\ pc[r] = "sourceAction"
    /\ UNCHANGED cancelVars
    /\ kernel' = [kernel EXCEPT ![r] = selected]
    /\ pc' = [pc EXCEPT ![r] = "resolved"]
    /\ UNCHANGED <<cellsArr, trust, exes, selected, matching, sourceActions, records,
                   log, execCall, err>>

\* lines 43-47 (and 55-71): the await of resolveSourceActions resumes
ResolveSourceActionsReturns(r) ==
    /\ pc[r] = "resolved"
    /\ UNCHANGED cancelVars
    /\ UNCHANGED <<cellsArr, trust, matching, sourceActions, err>>
    /\ IF NeedsPicker(kernel[r])
       THEN /\ pc' = [pc EXCEPT ![r] = "picker"]
            /\ UNCHANGED <<kernel, exes, selected, records, log, execCall>>
       ELSE FilterAndDispatch(r, kernel[r])

\* the user picks a kernel in the open kernel picker
PickerSelects(k) ==
    /\ \E r \in Requests : pc[r] = "picker"
    /\ UNCHANGED cancelVars
    /\ k \in matching
    /\ selected' = k
    /\ UNCHANGED <<pc, cellsArr, trust, kernel, exes, matching, sourceActions, records,
                   log, execCall, err>>

\* a picker step that opens the picker again while no kernel is selected
PickerReturns_Retries(r) ==
    /\ pc[r] = "picker"
    /\ UNCHANGED cancelVars
    /\ UNCHANGED <<cellsArr, trust, matching, sourceActions, err>>
    /\ IF selected = NoKernel
       THEN UNCHANGED <<pc, kernel, exes, selected, records, log, execCall>>
       ELSE FilterAndDispatch(r, selected)

\* lines 47-53 (and 55-71): the picker command returns
PickerReturns(r) ==
    /\ pc[r] = "picker"
    /\ UNCHANGED cancelVars
    /\ UNCHANGED <<cellsArr, trust, matching, sourceActions, err>>
    /\ IF selected = NoKernel
       THEN /\ pc' = [pc EXCEPT ![r] = "done"]
            /\ UNCHANGED <<kernel, exes, selected, records, log, execCall>>
       ELSE FilterAndDispatch(r, selected)

\* the kernel reports that the execution of a cell has started
KernelConfirms(i) ==
    /\ i \in DOMAIN records
    /\ UNCHANGED cancelVars
    /\ records[i].state = "Unconfirmed"
    /\ records' = [records EXCEPT ![i].state = "Confirmed"]
    /\ UNCHANGED <<pc, cellsArr, trust, kernel, exes, selected, matching, sourceActions,
                   log, execCall, err>>

\* the kernel finishes the execution of a cell
KernelCompletes(i) ==
    /\ i \in DOMAIN records
    /\ UNCHANGED cancelVars
    /\ Live(records[i])
    /\ records' = [records EXCEPT ![i] = Complete(@, "kernel")]
    /\ UNCHANGED <<pc, cellsArr, trust, kernel, exes, selected, matching, sourceActions,
                   log, execCall, err>>

\* lines 71-79: executeNotebookCellsRequest resolves; reconcile
ExecuteReturns(r) ==
    /\ pc[r] = "executing"
    /\ UNCHANGED cancelVars
    /\ records' = CompleteUnconfirmed(records, exes[r])
    /\ log' = [log EXCEPT ![r] = @ \o [i \in 1..Len(Unconfirmed(records, exes[r])) |-> "complete"]]
    /\ pc' = [pc EXCEPT ![r] = "done"]
    /\ UNCHANGED <<cellsArr, trust, kernel, exes, selected, matching, sourceActions,
                   execCall, err>>

\* a rejection that still reconciles, as a finally block would
ExecuteRejects_Reconciles(r) ==
    /\ pc[r] = "executing"
    /\ UNCHANGED cancelVars
    /\ err' = [err EXCEPT ![r] = TRUE]
    /\ pc' = [pc EXCEPT ![r] = "failed"]
    /\ records' = CompleteUnconfirmed(records, exes[r])
    /\ UNCHANGED <<cellsArr, trust, kernel, exes, selected, matching, sourceActions,
                   log, execCall>>

\* line 71: executeNotebookCellsRequest rejects; the rejection leaves the function
ExecuteRejects(r) ==
    /\ pc[r] = "executing"
    /\ UNCHANGED cancelVars
    /\ err' = [err EXCEPT ![r] = TRUE]
    /\ pc' = [pc EXCEPT ![r] = "failed"]
    /\ UNCHANGED <<cellsArr, trust, kernel, exes, selected, matching, sourceActions,
                   records, log, execCall>>

Next ==
    \/ \E r \in Requests, cs \in CellSeqs : ExecuteNotebookCells(r, cs)
    \/ \E r \in Requests, t \in BOOLEAN : TrustReturns(r, t)
    \/ \E k \in Kernels, sel \in BOOLEAN : SourceActionAddsKernel(k, sel)
    \/ \E r \in Requests : SourceActionReturns(r)
    \/ \E r \in Requests : ResolveSourceActionsReturns(r)
    \/ \E k \in Kernels : PickerSelects(k)
    \/ \E r \in Requests : PickerReturns(r)
    \/ \E i \in DOMAIN records : KernelConfirms(i)
    \/ \E i \in DOMAIN records : KernelCompletes(i)
    \/ \E r \in Requests : ExecuteReturns(r)
    \/ \E r \in Requests : ExecuteRejects(r)

Spec == Init /\ [][Next]_vars

\* ------------------------------------------------------------ cancellation
\* with no kernel selected, fall back to a matching kernel
ForwardCancel_FallsBack(hs) ==
    /\ chandles' = hs
    /\ IF selected # NoKernel \/ matching # {}
       THEN /\ ccall' = [kernel |-> IF selected # NoKernel THEN selected
                                    ELSE CHOOSE k \in matching : TRUE,
                         handles |-> hs]
            /\ cpc' = "cancelling"
       ELSE /\ ccall' = NoCall
            /\ cpc' = "done"

\* forward only the handles of Code cells
ForwardCancel_CodeCellsOnly(hs) ==
    /\ chandles' = hs
    /\ IF selected # NoKernel
       THEN /\ ccall' = [kernel |-> selected,
                         handles |-> SelectSeq(hs, LAMBDA h : CellKind(h) = "Code")]
            /\ cpc' = "cancelling"
       ELSE /\ ccall' = NoCall
            /\ cpc' = "done"

\* lines 97-103: read the selected-or-suggested kernel and, if there is one,
\* call its cancelNotebookCellExecution with the handles as given
ForwardCancel(hs) ==
    /\ chandles' = hs
    /\ IF selected # NoKernel
       THEN /\ ccall' = [kernel |-> selected, handles |-> hs]
            /\ cpc' = "cancelling"
       ELSE /\ ccall' = NoCall
            /\ cpc' = "done"

\* lines 96-104: a caller invokes cancelNotebookCellHandles; its promise
\* settles when the function ends
CancelNotebookCellHandles(hs) ==
    /\ cpc \in {"idle", "done", "failed"}
    /\ capi' = "handles"
    /\ ForwardCancel(hs)
    /\ couter' = IF selected # NoKernel THEN "pending" ELSE "resolved"
    /\ UNCHANGED executeVars

\* lines 106-108: a caller invokes cancelNotebookCells; the call of
\* cancelNotebookCellHandles is not awaited, so the caller's promise resolves at once
CancelNotebookCells(cs) ==
    /\ cpc \in {"idle", "done", "failed"}
    /\ capi' = "cells"
    /\ ForwardCancel(cs)
    /\ couter' = "resolved"
    /\ UNCHANGED executeVars

\* line 101: cancelNotebookCellExecution resolves
CancelReturns ==
    /\ cpc = "cancelling"
    /\ cpc' = "done"
    /\ couter' = IF capi = "handles" THEN "resolved" ELSE couter
    /\ UNCHANGED <<capi, chandles, ccall>>
    /\ UNCHANGED executeVars

\* line 101: cancelNotebookCellExecution rejects
CancelRejects ==
    /\ cpc = "cancelling"
    /\ cpc' = "failed"
    /\ couter' = IF capi = "handles" THEN "rejected" ELSE couter
    /\ UNCHANGED <<capi, chandles, ccall>>
    /\ UNCHANGED executeVars

\* the one executeNotebookCells request that runs beside the cancellations
CancelSpecRequests == {1}

InitCancel == Init /\ sourceActions = 1

NextCancel ==
    \/ \E r \in CancelSpecRequests, cs \in CellSeqs : ExecuteNotebookCells(r, cs)
    \/ \E r \in CancelSpecRequests, t \in BOOLEAN : TrustReturns(r, t)
    \/ \E k \in Kernels, sel \in BOOLEAN : SourceActionAddsKernel(k, sel)
    \/ \E r \in CancelSpecRequests : SourceActionReturns(r)
    \/ \E r \in CancelSpecRequests : ResolveSourceActionsReturns(r)
    \/ \E k \in Kernels : PickerSelects(k)
    \/ \E r \in CancelSpecRequests : PickerReturns(r)
    \/ \E i \in DOMAIN records : KernelConfirms(i)
    \/ \E i \in DOMAIN records : KernelCompletes(i)
    \/ \E r \in CancelSpecRequests : ExecuteReturns(r)
    \/ \E r \in CancelSpecRequests : ExecuteRejects(r)
    \/ \E hs \in CellSeqs : CancelNotebookCellHandles(hs)
    \/ \E cs \in CellSeqs : CancelNotebookCells(cs)
    \/ CancelReturns
    \/ CancelRejects

SpecCancel == InitCancel /\ [][NextCancel]_vars

\* ------------------------------------------------------------ properties
\* records the execution state service holds that request r created
CreatedBy(recs, r) == {i \in DOMAIN recs : recs[i].by = r}

\* the requested cells that are Code, have no live record in recs and a
\* language kernel k supports, stated from the data model
EligibleSet(recs, k, cs) ==
    {c \in Range(cs) : /\ CellKind(c) = "Code"
                       /\ \A i \in DOMAIN recs : recs[i].handle = c => ~Live(recs[i])
                       /\ Language(c) \in SupportedLanguages(k)}

\* request r makes its executeNotebookCellsRequest call in this step
Dispatches(r) == execCall[r] = NoCall /\ execCall'[r] # NoCall

\* C1: a request whose trust request has not returned true has not read the
\* selected kernel, run a source action, opened the picker, bound a kernel,
\* created a record or called the kernel; a declined request has ended,
\* without error, having done none of these
C1_TrustGate ==
    \A r \in Requests :
        /\ trust[r] # "yes" =>
              /\ pc[r] \in {"idle", "trust", "done"}
              /\ kernel[r] = NoKernel
              /\ exes[r] = <<>>
              /\ execCall[r] = NoCall
              /\ CreatedBy(records, r) = {}
              /\ \A i \in DOMAIN log[r] : log[r][i] = "requestTrust"
              /\ ~err[r]
        /\ trust[r] = "no" => pc[r] = "done"

\* C1 witness: a declined request that a selected kernel and an eligible
\* cell were waiting for
C1_Witness ==
    \E r \in Requests :
        /\ trust[r] = "no"
        /\ pc[r] = "done"
        /\ selected # NoKernel
        /\ EligibleSet(records, selected, cellsArr[r]) # {}

\* C2: the handles of an execute call hold no Markup cell, no cell whose
\* language the called kernel does not support, and no cell that had a live
\* record when the step that filters and calls began
C2_NoIneligibleHandle ==
    [][\A r \in Requests :
          Dispatches(r) =>
              \A i \in DOMAIN execCall'[r].handles :
                  LET h == execCall'[r].handles[i]
                  IN  /\ CellKind(h) # "Markup"
                      /\ Language(h) \in SupportedLanguages(execCall'[r].kernel)
                      /\ h \notin LiveHandles(records)]_vars

\* C2 witness: a call was made for a request that also asked for a Markup
\* cell whose language the called kernel supports
C2_Witness ==
    \E r \in Requests :
        /\ pc[r] = "executing"
        /\ \E c \in Range(cellsArr[r]) :
               /\ CellKind(c) = "Markup"
               /\ Language(c) \in SupportedLanguages(execCall[r].kernel)
               /\ c \notin Range(execCall[r].handles)

\* C3: when a request dispatches, the handles it passes, the cells of its
\* exes and the cells of the records created in the step are one set: the
\* requested cells that are Code, had no live record and have a language the
\* resolved kernel supports
C3_ExactlyEligible ==
    [][\A r \in Requests :
          Dispatches(r) =>
              LET want == EligibleSet(records, kernel'[r], cellsArr[r])
              IN  /\ execCall'[r].kernel = kernel'[r]
                  /\ Range(execCall'[r].handles) = want
                  /\ {records'[i].handle : i \in Range(exes'[r])} = want
                  /\ {records'[i].handle : i \in DOMAIN records' \ DOMAIN records} = want
                  /\ \A i \in DOMAIN records' \ DOMAIN records :
                         records'[i].by = r /\ records'[i].kernel = kernel'[r]
                  /\ \A i \in DOMAIN records : records'[i] = records[i]]_vars

\* C3 witness: cells [A(code,py), C(code,js)] on the kernel that supports
\* {py}: the call got exactly [A] and the one record is A's
C3_Witness ==
    \E r \in Requests :
        /\ cellsArr[r] = <<1, 3>>
        /\ execCall[r] = [kernel |-> "K1", handles |-> <<1>>]
        /\ {records[i].handle : i \in CreatedBy(records, r)} = {1}


\* request r, trusted and with a kernel resolved, runs its filtering loop in this step
Filters(r) ==
    /\ pc[r] \in {"trust", "resolved", "picker"}
    /\ pc'[r] \in {"executing", "done", "failed"}
    /\ trust'[r] = "yes"
    /\ kernel'[r] # NoKernel

\* C4: a filtering step that leaves no eligible cell ends the request and
\* changes nothing: no execute call, no record, no binding of the kernel
C4_EmptyIsNoOp ==
    [][\A r \in Requests :
          (Filters(r) /\ EligibleSet(records, kernel'[r], cellsArr[r]) = {}) =>
              /\ pc'[r] = "done"
              /\ execCall' = execCall
              /\ records' = records
              /\ exes' = exes
              /\ selected' = selected
              /\ matching' = matching
              /\ log' = log
              /\ err' = err]_vars

\* C4 witness: a trusted request with a kernel and a non-empty cell list
\* that ended without a call, while another kernel is the selected one
C4_Witness ==
    \E r \in Requests :
        /\ pc[r] = "done"
        /\ trust[r] = "yes"
        /\ kernel[r] # NoKernel
        /\ cellsArr[r] # <<>>
        /\ execCall[r] = NoCall
        /\ selected # kernel[r]

\* C5: once a request has returned normally, no record it created is Unconfirmed
C5_NoneLeftUnconfirmed ==
    \A r \in Requests :
        pc[r] = "done" =>
            \A i \in CreatedBy(records, r) : records[i].state # "Unconfirmed"

\* C5 witness: a returned request with one record the kernel confirmed and
\* one the kernel never touched
C5_Witness ==
    \E r \in Requests :
        /\ pc[r] = "done"
        /\ \E i, j \in CreatedBy(records, r) :
               /\ records[i].state = "Confirmed"
               /\ records[j].result = "empty"

\* C6: the step in which the execute call returns completes, with an empty
\* result, exactly the records of the call that are still Unconfirmed, and
\* leaves every other record as it is
C6_ReconcileOnlyUnconfirmed ==
    [][\A r \in Requests :
          (pc[r] = "executing" /\ pc'[r] # "executing" /\ ~err'[r]) =>
              /\ DOMAIN records' = DOMAIN records
              /\ \A i \in DOMAIN records :
                     records'[i] =
                         IF records[i].by = r /\ records[i].state = "Unconfirmed"
                         THEN [records[i] EXCEPT !.state = "Completed", !.result = "empty"]
                         ELSE records[i]]_vars

\* C6 witness: the kernel confirmed A and not C; after the return C is
\* completed with an empty result and A is still Confirmed
C6_Witness ==
    \E r \in Requests :
        /\ pc[r] = "done"
        /\ execCall[r].handles = <<1, 3>>
        /\ \E i, j \in CreatedBy(records, r) :
               /\ records[i].handle = 1 /\ records[i].state = "Confirmed"
               /\ records[j].handle = 3 /\ records[j].state = "Completed"
               /\ records[j].result = "empty"

\* C7: a rejected execute call surfaces as the request's error, the request
\* does nothing more (no second call, no completion), and the rejecting step
\* leaves every record as the kernel left it
C7_RejectionPropagates ==
    [][\A r \in Requests :
          /\ (pc[r] = "executing" /\ pc'[r] = "failed") =>
                 /\ err'[r]
                 /\ records' = records
                 /\ execCall' = execCall
                 /\ log' = log
          /\ pc[r] = "failed" =>
                 /\ pc'[r] = "failed"
                 /\ err'[r]
                 /\ execCall'[r] = execCall[r]
                 /\ log'[r] = log[r]
                 /\ \A i \in DOMAIN log[r] : log[r][i] # "complete"
                 /\ Cardinality({i \in DOMAIN log[r] : log[r][i] = "execute"}) = 1
          /\ err'[r] => pc'[r] = "failed"]_vars

\* C7 witness: a failed request one of whose records is still Unconfirmed
C7_Witness ==
    \E r \in Requests :
        /\ pc[r] = "failed"
        /\ err[r]
        /\ \E i \in CreatedBy(records, r) : records[i].state = "Unconfirmed"

\* request r leaves the await of requestWorkspaceTrust with trust granted
Resolves(r) == pc[r] = "trust" /\ pc'[r] # "trust" /\ trust'[r] = "yes"

\* request r starts its source action / opens the picker in this step
RunsSourceAction(r) == pc[r] # "sourceAction" /\ pc'[r] = "sourceAction"

OpensPicker(r) == pc[r] # "picker" /\ pc'[r] = "picker"

\* request r (with field values of its own) is untouched by this step
Waits(r) ==
    /\ kernel'[r] = kernel[r]
    /\ exes'[r] = exes[r]
    /\ log'[r] = log[r]
    /\ execCall'[r] = execCall[r]

\* C8: resolution runs a source action exactly when no kernel is
\* selected-or-suggested, no kernel matches and there is exactly one source
\* action; the request runs it at most once (only on leaving the trust await,
\* which it never re-enters), waits for it, and re-reads the kernel when it returns
C8_SourceActionIffUnambiguous ==
    [][\A r \in Requests :
          /\ RunsSourceAction(r) =>
                 /\ Resolves(r)
                 /\ selected = NoKernel
                 /\ matching = {}
                 /\ sourceActions = 1
          /\ (Resolves(r) /\ selected = NoKernel /\ matching = {} /\ sourceActions = 1)
                 => RunsSourceAction(r)
          /\ pc[r] # "idle" => pc'[r] # "idle"
          /\ pc[r] \notin {"idle", "trust"} => pc'[r] # "trust"
          /\ (pc[r] = "sourceAction" /\ pc'[r] = "sourceAction") => Waits(r)
          /\ (pc[r] = "sourceAction" /\ pc'[r] # "sourceAction") =>
                 /\ pc'[r] = "resolved"
                 /\ kernel'[r] = selected'
                 /\ selected' = selected]_vars

\* C8 witness: the source action of a request is running and has made a
\* kernel selected, which the request has yet to read
C8_Witness ==
    \E r \in Requests :
        /\ pc[r] = "sourceAction"
        /\ kernel[r] = NoKernel
        /\ selected # NoKernel

\* C9: the picker is opened exactly when resolution steps 1 and 2 gave the
\* request no kernel: never after it read a selected-or-suggested kernel
\* right after trust or after its source action, always when the source
\* action was not run or left none; a picker that returns with no kernel
\* selected-or-suggested ends the request without error and without effect
C9_PickerIffUnresolved ==
    [][\A r \in Requests :
          /\ OpensPicker(r) => (pc[r] = "resolved" /\ kernel[r] = NoKernel)
          /\ (pc[r] = "resolved" /\ pc'[r] # "resolved") =>
                 (kernel[r] = NoKernel <=> OpensPicker(r))
          /\ (Resolves(r) /\ selected # NoKernel) =>
                 (kernel'[r] = selected /\ pc'[r] \in {"executing", "done"})
          /\ (Resolves(r) /\ selected = NoKernel /\ ~RunsSourceAction(r)) =>
                 (kernel'[r] = NoKernel /\ pc'[r] = "resolved")
          /\ (pc[r] = "sourceAction" /\ pc'[r] # "sourceAction") =>
                 (kernel'[r] = selected /\ pc'[r] = "resolved")
          /\ pc[r] \in {"executing", "done", "failed"} =>
                 pc'[r] \in {"executing", "done", "failed"}
          /\ (pc[r] = "picker" /\ pc'[r] # "picker" /\ selected = NoKernel) =>
                 /\ pc'[r] = "done"
                 /\ ~err'[r]
                 /\ kernel'[r] = NoKernel
                 /\ selected' = NoKernel
                 /\ records' = records
                 /\ execCall' = execCall
                 /\ Waits(r)
          /\ (pc[r] = "picker" /\ pc'[r] # "picker" /\ selected # NoKernel) =>
                 kernel'[r] = selected]_vars

\* C9 witness: a trusted request that ended with no kernel, which only a
\* picker closed without a choice produces
C9_Witness ==
    \E r \in Requests :
        /\ pc[r] = "done"
        /\ trust[r] = "yes"
        /\ kernel[r] = NoKernel
        /\ cellsArr[r] # <<>>

\* C10 as stated: with no kernel selected and exactly one source action,
\* resolution runs the source action
C10_Original ==
    [][\A r \in Requests :
          (Resolves(r) /\ selected = NoKernel /\ sourceActions = 1)
              => RunsSourceAction(r)]_vars

\* C10 amended: with no kernel selected-or-suggested, no matching kernel and
\* exactly one source action, resolution runs the source action; when it
\* returns the kernel is read again; with a kernel the request goes on with
\* the eligible cells (a call with exactly them, or the end if there are
\* none); without one the picker is opened, and the request ends silently
\* only if the picker too leaves no kernel selected-or-suggested
C10_SourceActionScenario ==
    [][\A r \in Requests :
          /\ (Resolves(r) /\ selected = NoKernel /\ matching = {} /\ sourceActions = 1)
                 => RunsSourceAction(r)
          /\ (pc[r] = "sourceAction" /\ pc'[r] # "sourceAction") =>
                 (pc'[r] = "resolved" /\ kernel'[r] = selected)
          /\ (pc[r] = "resolved" /\ pc'[r] # "resolved" /\ kernel[r] # NoKernel) =>
                 /\ kernel'[r] = kernel[r]
                 /\ IF EligibleSet(records, kernel[r], cellsArr[r]) # {}
                    THEN /\ pc'[r] = "executing"
                         /\ execCall'[r].kernel = kernel[r]
                         /\ Range(execCall'[r].handles) =
                                EligibleSet(records, kernel[r], cellsArr[r])
                    ELSE /\ pc'[r] = "done"
                         /\ execCall'[r] = NoCall
          /\ (pc[r] = "resolved" /\ pc'[r] # "resolved" /\ kernel[r] = NoKernel) =>
                 pc'[r] = "picker"
          /\ (pc[r] = "picker" /\ pc'[r] # "picker") =>
                 IF selected = NoKernel
                 THEN pc'[r] = "done" /\ ~err'[r] /\ execCall'[r] = NoCall /\ records' = records
                 ELSE kernel'[r] = selected /\ pc'[r] \in {"executing", "done"}]_vars

\* C10 witness: the source action has run, the kernel it made selected has
\* been read, and eligible cells are waiting for the call
C10_Witness ==
    \E r \in Requests :
        /\ pc[r] = "resolved"
        /\ sourceActions = 1
        /\ kernel[r] # NoKernel
        /\ EligibleSet(records, kernel[r], cellsArr[r]) # {}

\* a cancellation method is invoked in this step
InvokesCancel == cpc # "cancelling" /\ cancelVars' # cancelVars

\* C11: cancelNotebookCells and cancelNotebookCellHandles invoked with no
\* kernel selected-or-suggested end at once without error, call no kernel
\* and change no record, no selection and nothing else of the executions
C11_CancelWithoutKernelIsNoOp ==
    [][(InvokesCancel /\ selected = NoKernel) =>
          /\ cpc' = "done"
          /\ couter' = "resolved"
          /\ ccall' = NoCall
          /\ records' = records
          /\ selected' = NoKernel
          /\ matching' = matching
          /\ executeVars' = executeVars]_vars

\* C11 witness: cancelNotebookCells of some cells ended without a call while
\* no kernel is selected, matching kernels exist and a request waits in the picker
C11_Witness ==
    /\ cpc = "done"
    /\ capi = "cells"
    /\ chandles # <<>>
    /\ ccall = NoCall
    /\ couter = "resolved"
    /\ selected = NoKernel
    /\ matching # {}
    /\ \E r \in Requests : pc[r] = "picker"

\* C12: no step of a cancellation touches trust, resolution, the selection
\* or any record; an invocation with a kernel selected forwards to that
\* kernel exactly the handles given, whatever their kind or execution
\* state; and repeating an invocation leaves everything as the first left it
C12_CancelOnlyForwards ==
    [][/\ cancelVars' # cancelVars =>
             /\ trust' = trust
             /\ pc' = pc
             /\ log' = log
             /\ selected' = selected
             /\ matching' = matching
             /\ records' = records
             /\ executeVars' = executeVars
       /\ (InvokesCancel /\ selected # NoKernel) =>
             /\ ccall' = [kernel |-> selected, handles |-> chandles']
             /\ cpc' = "cancelling"
       /\ (cpc \in {"done", "failed"} /\ ccall = [kernel |-> selected, handles |-> chandles]
           /\ cpc' = "cancelling" /\ chandles' = chandles /\ capi' = capi) =>
             /\ ccall' = ccall
             /\ executeVars' = executeVars]_vars

\* C12 witness: while a request is executing, a cancellation was forwarded
\* with a Markup cell's handle and with a handle that has no live record
C12_Witness ==
    /\ cpc = "cancelling"
    /\ \E r \in Requests : pc[r] = "executing"
    /\ \E h \in Range(ccall.handles) : CellKind(h) = "Markup"
    /\ \E h \in Range(ccall.handles) : h \notin LiveHandles(records)
    /\ ccall.kernel = selected

\* C13 as stated: cancelNotebookCells does not complete before the kernel's
\* cancel call has settled, and a rejection of that call reaches its caller
C13_CancelCellsAwaits ==
    capi = "cells" =>
        /\ cpc = "cancelling" => couter = "pending"
        /\ cpc = "failed" => couter = "rejected"

\* positions of event e in a log
At(lg, e) == {i \in DOMAIN lg : lg[i] = e}

\* C14: in the log of a request the binding of the kernel comes first, then
\* one record creation per dispatched handle, then the execute call, and
\* completions by the request only after it; when the call is made the
\* kernel is the selected one and every handle passed has a live record; a
\* completion by the request happens only in the step in which the call returns
C14_DispatchOrder ==
    [][\A r \in Requests :
          /\ \A b \in At(log'[r], "selectKernel"), c \in At(log'[r], "createExecution"),
                x \in At(log'[r], "execute"), d \in At(log'[r], "complete") :
                 b < c /\ c < x /\ x < d
          /\ Dispatches(r) =>
                 /\ Cardinality(At(log'[r], "selectKernel")) = 1
                 /\ Cardinality(At(log'[r], "execute")) = 1
                 /\ Cardinality(At(log'[r], "createExecution")) = Len(execCall'[r].handles)
                 /\ selected' = execCall'[r].kernel
                 /\ Range(execCall'[r].handles) \subseteq LiveHandles(records')
          /\ At(log'[r], "complete") # At(log[r], "complete") =>
                 (pc[r] = "executing" /\ pc'[r] = "done")
          /\ (\E i \in CreatedBy(records, r) :
                 records[i].result # "empty" /\ records'[i].result = "empty") =>
                 (pc[r] = "executing" /\ pc'[r] = "done")]_vars

\* C14 witness: a returned request that bound, created two records, called
\* and then completed one record itself
C14_Witness ==
    \E r \in Requests :
        /\ pc[r] = "done"
        /\ log[r] = <<"requestTrust", "selectKernel", "createExecution",
                      "createExecution", "execute", "complete">>

\* live records of cell h
LiveOf(recs, h) == {i \in DOMAIN recs : Live(recs[i]) /\ recs[i].handle = h}

\* C15: whatever the interleaving of two requests, a cell has at most one
\* live record, and a request passes to the kernel no cell for which a live
\* record (of the other request in particular) exists when it filters:
\* filtering, record creation and the call are one step between two awaits
C15_NoDoubleDispatch ==
    [][/\ \A h \in Cells : Cardinality(LiveOf(records', h)) <= 1
       /\ \A r \in Requests :
             Dispatches(r) =>
                 /\ pc[r] \in {"trust", "resolved", "picker"}
                 /\ pc'[r] = "executing"
                 /\ \A h \in Range(execCall'[r].handles) :
                        /\ LiveOf(records, h) = {}
                        /\ \A i \in LiveOf(records', h) : records'[i].by = r]_vars

\* C15 witness: both requests asked for cell A on a kernel that supports it;
\* one dispatched it and its record is live, the other is executing without it
C15_Witness ==
    \E r, q \in Requests :
        /\ r # q
        /\ pc[r] = "executing" /\ pc[q] = "executing"
        /\ 1 \in Range(execCall[r].handles)
        /\ 1 \in Range(cellsArr[q])
        /\ 1 \notin Range(execCall[q].handles)
        /\ \E i \in LiveOf(records, 1) : records[i].by = r

\* C16 as stated: a dispatching request passes each eligible cell's handle
\* exactly once and creates exactly one record per eligible cell, also when
\* the requested collection repeats a cell
C16_OncePerCell ==
    [][\A r \in Requests :
          Dispatches(r) =>
              LET want == EligibleSet(records, kernel'[r], cellsArr[r])
              IN  /\ Len(execCall'[r].handles) = Cardinality(want)
                  /\ Len(exes'[r]) = Cardinality(want)
                  /\ Cardinality(DOMAIN records' \ DOMAIN records) = Cardinality(want)
                  /\ Cardinality(At(log'[r], "createExecution")) = Cardinality(want)]_vars

\* C17: the records a request creates all carry the one kernel the request
\* resolved; that kernel's languages filtered the cells, its execute
\* operation is the one called, and in the step of the call it is the kernel
\* selected for the notebook, whatever the other request selected meanwhile
C17_OneKernel ==
    [][\A r \in Requests :
          /\ \A i \in CreatedBy(records', r) : records'[i].kernel = kernel'[r]
          /\ Dispatches(r) =>
                 /\ execCall'[r].kernel = kernel'[r]
                 /\ selected' = kernel'[r]
                 /\ execCall'[r].handles = FilterCells(records, kernel'[r], cellsArr[r])
                 /\ \A h \in Range(execCall'[r].handles) :
                        Language(h) \in SupportedLanguages(kernel'[r])
                 /\ \A i \in DOMAIN records' \ DOMAIN records :
                        records'[i].by = r /\ records'[i].kernel = execCall'[r].kernel]_vars

\* C17 witness: two requests are executing on different kernels, so the
\* selection changed between the first call and the second
C17_Witness ==
    \E r, q \in Requests :
        /\ pc[r] = "executing" /\ pc[q] = "executing"
        /\ kernel[r] # kernel[q]
        /\ selected = kernel[q]
        /\ CreatedBy(records, r) # {} /\ CreatedBy(records, q) # {}

\* C19: the step in which the execute call of a request returns changes no
\* record that another request created
C19_ReconcileOwnOnly ==
    [][\A r \in Requests :
          (pc[r] = "executing" /\ pc'[r] = "done") =>
              \A i \in DOMAIN records : records[i].by # r => records'[i] = records[i]]_vars

\* C19 witness: a request has returned and force-completed a record of its
\* own, while an older record of the other request, whose call has not
\* returned, is still Unconfirmed
C19_Witness ==
    \E r, q \in Requests :
        /\ r # q
        /\ pc[r] = "done" /\ pc[q] = "executing"
        /\ \E i \in CreatedBy(records, r), j \in CreatedBy(records, q) :
               /\ j < i
               /\ records[i].result = "empty"
               /\ records[j].state = "Unconfirmed"

\* every collaborator call of a request eventually settles: the trust
\* request, the source action, resolveSourceActions' own promise, the picker
\* command and the kernel's execute call
Settles(r) ==
    /\ WF_vars(\E t \in BOOLEAN : TrustReturns(r, t))
    /\ WF_vars(SourceActionReturns(r))
    /\ WF_vars(ResolveSourceActionsReturns(r))
    /\ WF_vars(PickerReturns(r))
    /\ WF_vars(ExecuteReturns(r) \/ ExecuteRejects(r))

\* the requests of the liveness specification
LiveRequests == {1}

NextLive ==
    \/ \E r \in LiveRequests, cs \in CellSeqs : ExecuteNotebookCells(r, cs)
    \/ \E r \in LiveRequests, t \in BOOLEAN : TrustReturns(r, t)
    \/ \E k \in Kernels, sel \in BOOLEAN : SourceActionAddsKernel(k, sel)
    \/ \E r \in LiveRequests : SourceActionReturns(r)
    \/ \E r \in LiveRequests : ResolveSourceActionsReturns(r)
    \/ \E k \in Kernels : PickerSelects(k)
    \/ \E r \in LiveRequests : PickerReturns(r)
    \/ \E i \in DOMAIN records : KernelConfirms(i)
    \/ \E i \in DOMAIN records : KernelCompletes(i)
    \/ \E r \in LiveRequests : ExecuteReturns(r)
    \/ \E r \in LiveRequests : ExecuteRejects(r)

\* the program under the hypothesis that no collaborator call hangs
SpecLive == Init /\ [][NextLive]_vars /\ \A r \in LiveRequests : Settles(r)

\* C18: when no collaborator call hangs, every request that was made
\* completes: its promise rejects because the execute call was rejected, or
\* it resolves and by then no record it created is Unconfirmed
C18_EventuallyCompletes ==
    \A r \in LiveRequests :
        (pc[r] # "idle")
            ~> \/ pc[r] = "failed"
               \/ /\ pc[r] = "done"
                  /\ \A i \in CreatedBy(records, r) : records[i].state # "Unconfirmed"

\* C18 witness: a request has returned after creating two records, one
\* completed by the kernel and one by the request's reconciliation
C18_Witness ==
    \E r \in LiveRequests :
        /\ pc[r] = "done"
        /\ \E i, j \in CreatedBy(records, r) :
               records[i].result = "kernel" /\ records[j].result = "empty"

====
